---- MODULE Spec2Model ----
(***************************************************************************)
(* redirect.name: DNS-TXT driven redirects, the certificate admission      *)
(* gate and the rate-limited certificate cache (src/server.go).            *)
(*                                                                         *)
(* Spec      : rateLimitedCache used by one client (Put split at its lock,  *)
(*             clock read, quota check, store call and increment).         *)
(* SpecConc  : the same steps taken by concurrent workers.                 *)
(* SpecHttp  : getRedirect and hostPolicy applied to bounded TXT answers.  *)
(***************************************************************************)
EXTENDS Integers, Sequences, FiniteSets, TLC

(***************************************************************************)
(* Bounds of the model.                                                    *)
(***************************************************************************)
NumWorkers == 2
\* the clock is observed every TickStep days, up to day MaxNow
TickStep == 4
MaxNow == 16

(***************************************************************************)
(* Program constants.                                                      *)
(***************************************************************************)
\* 7 * 24 * time.Hour, in the clock unit of the model (one day)
WeekLen == 7
\* c.counts[apex] >= 2
Limit == 2

Workers == 1..NumWorkers

(***************************************************************************)
(* Keys handed to Put by the certificate manager, as their dot-separated   *)
(* labels.  "acme_account+key" has a single label.                         *)
(***************************************************************************)
KeySub1Example == <<"sub1", "example", "com">>
KeySub2Example == <<"sub2", "example", "com">>
KeySub1Other == <<"sub1", "other", "org">>
KeyAccount == << "acme_account+key" >>
Keys == {KeySub1Example, KeySub2Example, KeySub1Other, KeyAccount}
\* the keys of one apex, used by the concurrent workers
SameApexKeys == {KeySub1Example, KeySub2Example}

ApexExample == <<"example", "com">>
ApexOther == <<"other", "org">>
Apexes == {ApexExample, ApexOther}
NoApex == << >>

Datas == {"certA", "certB"}
NoData == "absent"

\* errors the underlying autocert.DirCache can return from Put
StoreErrors == {"EIO", "context canceled"}
RateLimitExceeded == "rate limit exceeded"
OK == "nil"
NoResult == "-"
NoKey == << >>
\* no call holds or has held the lock
NoEntry == [counts |-> << >>, weekOf |-> 0]
Free == 0
\* autocert.ErrCacheMiss
ErrCacheMiss == "acme/autocert: certificate cache miss"
\* no Get or Delete yet
NoGot == [op |-> NoResult, key |-> NoKey, ret |-> NoResult, counts |-> << >>, mu |-> Free]

\* the last n elements of s
Suffix(s, n) == SubSeq(s, Len(s) - n + 1, Len(s))

\* publicsuffix.PublicSuffix: the listed suffix rules that apply to the
\* model's keys; a name matching no rule has its last label as suffix
\* (the default rule "*").
SuffixRules == { <<"com">>, <<"org">> }
PublicSuffixLen(domain) ==
    LET matching == { n \in 1..Len(domain) : Suffix(domain, n) \in SuffixRules }
    IN  IF matching = {} THEN 1
        ELSE CHOOSE n \in matching : \A m \in matching : m <= n

\* publicsuffix.EffectiveTLDPlusOne(key): the public suffix and one more
\* label; an error when the key is itself a suffix
EffectiveTLDPlusOne(domain) ==
    IF Len(domain) <= PublicSuffixLen(domain)
    THEN [err |-> TRUE, apex |-> NoApex]
    ELSE [err |-> FALSE, apex |-> Suffix(domain, PublicSuffixLen(domain) + 1)]

\* time.Time.Truncate(d): round down to a multiple of d since the zero time
Truncate(t, d) == t - (t % d)

\* make(map[string]int): every apex reads as 0
EmptyCounts == [a \in Apexes |-> 0]

(***************************************************************************)
(* TXT records.  A record is the sequence of its space-separated words, a  *)
(* word the sequence of its characters; a keyword or a host part of a URL  *)
(* that the program never looks into is written as one character.          *)
(***************************************************************************)
MaxRecords == 3

KwRedirects == << "Redirects" >>
KwPermanently == << "permanently" >>
KwFrom == << "from" >>
KwTo == << "to" >>
KwWith == << "with" >>
Star == "*"

Digits == {"0", "1", "2", "3", "4", "5", "6", "7", "8", "9"}
DigitVal(c) ==
    CASE c = "0" -> 0 [] c = "1" -> 1 [] c = "2" -> 2 [] c = "3" -> 3 [] c = "4" -> 4
      [] c = "5" -> 5 [] c = "6" -> 6 [] c = "7" -> 7 [] c = "8" -> 8 [] c = "9" -> 9

IsNumeric(word) == Len(word) > 0 /\ \A i \in 1..Len(word) : word[i] \in Digits

RECURSIVE Atoi(_)
Atoi(word) ==
    IF Len(word) = 0 THEN 0
    ELSE 10 * Atoi(SubSeq(word, 1, Len(word) - 1)) + DigitVal(word[Len(word)])

\* strings.HasPrefix / strings.HasSuffix on character sequences
HasPrefix(s, prefix) ==
    Len(prefix) <= Len(s) /\ SubSeq(s, 1, Len(prefix)) = prefix
EndsWithStar(s) == Len(s) > 0 /\ s[Len(s)] = Star
\* s without its last character
DropLast(s) == SubSeq(s, 1, Len(s) - 1)
\* s without its first n characters
DropFirst(s, n) == SubSeq(s, n + 1, Len(s))

\* a pattern holds at most one wildcard, and only as its final character
WildcardOK(pattern) ==
    \A i \in 1..Len(pattern) : pattern[i] = Star => i = Len(pattern)

\* *Config; nil is the record that did not parse.  From = "" is the catch-all.
NilConfig == [nil |-> TRUE, From |-> << >>, To |-> << >>, Status |-> 0]
\* *Redirect; nil is "no match"
NilRedirect == [nil |-> TRUE, Location |-> << >>, Status |-> 0]

\* Parse(record): "Redirects [permanently] [from <path>] to <target> [with <code>]"
Parse(record) ==
    IF Len(record) < 1 \/ record[1] # KwRedirects THEN NilConfig
    ELSE
    LET perm == Len(record) >= 2 /\ record[2] = KwPermanently
        i == IF perm THEN 3 ELSE 2
        hasFrom == Len(record) >= i + 1 /\ record[i] = KwFrom
        from == IF hasFrom THEN record[i + 1] ELSE << >>
        j == IF hasFrom THEN i + 2 ELSE i
        hasTo == Len(record) >= j + 1 /\ record[j] = KwTo
        to == IF hasTo THEN record[j + 1] ELSE << >>
        k == j + 2
        hasWith == Len(record) = k + 1 /\ record[k] = KwWith /\ IsNumeric(record[k + 1])
        status == IF hasWith THEN Atoi(record[k + 1])
                  ELSE IF perm THEN 301 ELSE 302
    IN  IF /\ hasTo
           /\ Len(to) > 0
           /\ (hasFrom => Len(from) > 0)
           /\ (Len(record) = k - 1 \/ hasWith)
           /\ WildcardOK(from)
           /\ WildcardOK(to)
           /\ (EndsWithStar(from) => EndsWithStar(to))
        THEN [nil |-> FALSE, From |-> from, To |-> to, Status |-> status]
        ELSE NilConfig

Slash == "/"
\* the prefix a source pattern ending in "*" is compared with: the characters
\* before the "*", less a "/" that closes them.  The comparison is by
\* character and knows no path segments: "/docs/*" matches "/docs/x" and
\* "/docsx" alike.
MatchPrefix(from) ==
    LET literal == DropLast(from)
    IN  IF Len(literal) > 1 /\ literal[Len(literal)] = Slash
        THEN DropLast(literal)
        ELSE literal
\* the suffix of url captured by the "*" of from: what follows the characters
\* before the "*" when url starts with them, else what follows MatchPrefix
Captured(url, from) ==
    IF HasPrefix(url, DropLast(from))
    THEN DropFirst(url, Len(from) - 1)
    ELSE DropFirst(url, Len(MatchPrefix(from)))

\* Translate(url, config)
TranslateMutDropSuffix(url, config) ==
    IF config.From = << >>
    THEN [nil |-> FALSE, Location |-> config.To, Status |-> config.Status]
    ELSE IF ~EndsWithStar(config.From)
    THEN IF url = config.From
         THEN [nil |-> FALSE, Location |-> config.To, Status |-> config.Status]
         ELSE NilRedirect
    ELSE IF HasPrefix(url, MatchPrefix(config.From))
    THEN [nil |-> FALSE, Location |-> DropLast(config.To), Status |-> config.Status]
    ELSE NilRedirect
Translate(url, config) ==
    IF config.From = << >>
    THEN [nil |-> FALSE, Location |-> config.To, Status |-> config.Status]
    ELSE IF ~EndsWithStar(config.From)
    THEN IF url = config.From
         THEN [nil |-> FALSE, Location |-> config.To, Status |-> config.Status]
         ELSE NilRedirect
    ELSE IF HasPrefix(url, MatchPrefix(config.From))
    THEN [nil |-> FALSE,
          Location |-> DropLast(config.To) \o Captured(url, config.From),
          Status |-> config.Status]
    ELSE NilRedirect

NoPathsMatched == "No paths matched"

\* for _, config := range catchAlls { ... }; return nil, errors.New("No paths matched")
\* at[i] is the position in txt of catchAlls[i]
rangeCatchAllsMutLast(catchAlls, at, i, url, parsed) ==
    IF Len(catchAlls) = 0
    THEN [redirect |-> NilRedirect, err |-> NoPathsMatched, rule |-> 0, parsed |-> parsed]
    ELSE [redirect |-> Translate(url, catchAlls[Len(catchAlls)]), err |-> OK,
          rule |-> at[Len(catchAlls)], parsed |-> parsed]
RECURSIVE rangeCatchAlls(_, _, _, _, _)
rangeCatchAlls(catchAlls, at, i, url, parsed) ==
    IF i > Len(catchAlls)
    THEN [redirect |-> NilRedirect, err |-> NoPathsMatched, rule |-> 0, parsed |-> parsed]
    ELSE LET redirect == Translate(url, catchAlls[i])
         IN  IF ~redirect.nil
             THEN [redirect |-> redirect, err |-> OK, rule |-> at[i], parsed |-> parsed]
             ELSE rangeCatchAlls(catchAlls, at, i + 1, url, parsed)

\* for _, record := range txt { ... }
\* a loop that stops at the first record that does not parse
RECURSIVE rangeTxtMutBreak(_, _, _, _, _)
rangeTxtMutBreak(txt, i, url, catchAlls, at) ==
    IF i > Len(txt)
    THEN rangeCatchAlls(catchAlls, at, 1, url, Len(txt))
    ELSE LET config == Parse(txt[i])
         IN  IF config.nil
             THEN rangeCatchAlls(catchAlls, at, 1, url, i)
             ELSE IF config.From = << >>
             THEN rangeTxtMutBreak(txt, i + 1, url, Append(catchAlls, config), Append(at, i))
             ELSE LET redirect == Translate(url, config)
                  IN  IF ~redirect.nil
                      THEN [redirect |-> redirect, err |-> OK, rule |-> i, parsed |-> i]
                      ELSE rangeTxtMutBreak(txt, i + 1, url, catchAlls, at)
RECURSIVE rangeTxt(_, _, _, _, _)
rangeTxt(txt, i, url, catchAlls, at) ==
    IF i > Len(txt)
    THEN rangeCatchAlls(catchAlls, at, 1, url, Len(txt))
    ELSE LET config == Parse(txt[i])
         IN  IF config.nil
             THEN rangeTxt(txt, i + 1, url, catchAlls, at)
             ELSE IF config.From = << >>
             THEN rangeTxt(txt, i + 1, url, Append(catchAlls, config), Append(at, i))
             ELSE LET redirect == Translate(url, config)
                  IN  IF ~redirect.nil
                      THEN [redirect |-> redirect, err |-> OK, rule |-> i, parsed |-> i]
                      ELSE rangeTxt(txt, i + 1, url, catchAlls, at)

\* a resolver that translates catch-alls where they stand
RECURSIVE rangeTxtInOrder(_, _, _)
rangeTxtInOrder(txt, i, url) ==
    IF i > Len(txt)
    THEN [redirect |-> NilRedirect, err |-> NoPathsMatched, rule |-> 0, parsed |-> Len(txt)]
    ELSE LET config == Parse(txt[i])
             redirect == Translate(url, config)
         IN  IF ~config.nil /\ ~redirect.nil
             THEN [redirect |-> redirect, err |-> OK, rule |-> i, parsed |-> i]
             ELSE rangeTxtInOrder(txt, i + 1, url)
getRedirectMutInOrder(txt, url) == rangeTxtInOrder(txt, 1, url)

\* a resolver that keeps scanning after a scoped match and returns the last one
RECURSIVE rangeTxtLast(_, _, _, _, _, _)
rangeTxtLast(txt, i, url, catchAlls, at, found) ==
    IF i > Len(txt)
    THEN IF found.err = OK THEN found
         ELSE rangeCatchAlls(catchAlls, at, 1, url, Len(txt))
    ELSE LET config == Parse(txt[i])
         IN  IF config.nil
             THEN rangeTxtLast(txt, i + 1, url, catchAlls, at, found)
             ELSE IF config.From = << >>
             THEN rangeTxtLast(txt, i + 1, url, Append(catchAlls, config), Append(at, i), found)
             ELSE LET redirect == Translate(url, config)
                  IN  IF ~redirect.nil
                      THEN rangeTxtLast(txt, i + 1, url, catchAlls, at,
                              [redirect |-> redirect, err |-> OK, rule |-> i, parsed |-> i])
                      ELSE rangeTxtLast(txt, i + 1, url, catchAlls, at, found)
getRedirectMutLastMatch(txt, url) ==
    rangeTxtLast(txt, 1, url, << >>, << >>,
        [redirect |-> NilRedirect, err |-> NoPathsMatched, rule |-> 0, parsed |-> 0])

\* getRedirect(txt, url): the redirect or the error, with the position of the
\* record that produced it (rule) and the number of records parsed (parsed)
getRedirect(txt, url) == rangeTxt(txt, 1, url, << >>, << >>)

\* the name whose TXT records configure Host
Host == <<"go", "example", "com">>
RedirectName(host) == <<"_redirect">> \o host
NoSuchHost == "no such host"

\* for _, record := range txt { if Parse(record) != nil { return nil } }
anyParsesMutFirstOnly(txt, i) == i <= Len(txt) /\ ~Parse(txt[i]).nil
RECURSIVE anyParses(_, _)
anyParses(txt, i) ==
    IF i > Len(txt) THEN FALSE
    ELSE IF ~Parse(txt[i]).nil THEN TRUE
    ELSE anyParses(txt, i + 1)

\* hostPolicy(ctx, host), where lookup is the resolver: name -> [err, txt]
DNSLookupFailed == "DNS lookup failed"
NoValidConfig == "no valid redirect config in TXT records"
hostPolicyMutResolveRoot(lookup, host) ==
    LET answer == lookup[RedirectName(host)]
    IN  IF answer.err # OK THEN DNSLookupFailed
        ELSE IF getRedirect(answer.txt, <<"/">>).err = OK THEN OK
        ELSE NoValidConfig
hostPolicy(lookup, host) ==
    LET hostname == RedirectName(host)
        answer == lookup[hostname]
    IN  IF answer.err # OK THEN DNSLookupFailed
        ELSE IF anyParses(answer.txt, 1) THEN OK
        ELSE NoValidConfig

(***************************************************************************)
(* The HTTP handler.  A text that is formatted or escaped is the sequence  *)
(* of its words and separators.                                            *)
(***************************************************************************)
\* no call of getRedirect yet
NoOut == [redirect |-> NilRedirect, err |-> NoResult, rule |-> 0, parsed |-> 0]
StatusMovedPermanently == 301
StatusFound == 302
MaxAge == "max-age=86400"
FallbackDefault == "http://redirect.name/"
\* os.Getenv("FALLBACK_URL"): "" when unset
FallbackUrls == {"", "https://fallback.example/"}
Timeout == "i/o timeout"
DnsErrors == {NoSuchHost, Timeout}

\* err.Error()
ErrorText(err) ==
    CASE err = NoPathsMatched -> <<"No", " ", "paths", " ", "matched">>
      [] err = NoSuchHost     -> <<"no", " ", "such", " ", "host">>
      [] err = Timeout        -> <<"i", "/", "o", " ", "timeout">>

\* fmt.Sprintf("Could not resolve hostname (%v)", err)
CouldNotResolve(err) ==
    <<"Could", " ", "not", " ", "resolve", " ", "hostname", " ", "(">>
        \o ErrorText(err) \o <<")">>

\* url.QueryEscape: a space becomes "+", the other separators their %XX form,
\* words of letters stay
Escapes == [c \in {" ", "(", ")", "/"} |->
               CASE c = " " -> "+"
                 [] c = "(" -> "%28"
                 [] c = ")" -> "%29"
                 [] c = "/" -> "%2F"]
QueryEscape(text) ==
    [i \in 1..Len(text) |-> IF text[i] \in DOMAIN Escapes THEN Escapes[text[i]] ELSE text[i]]

\* the response: status line, Location and Cache-Control headers
NoResp == [status |-> 0, location |-> << >>, cacheControl |-> ""]
\* http.Redirect(w, r, url, code) on a response whose Cache-Control is set to cc
Redirect(cc, url, code) == [status |-> code, location |-> url, cacheControl |-> cc]

\* fallback(w, r, reason), env the value of FALLBACK_URL
fallbackMutNoReason(env, reason) ==
    Redirect("", IF env = "" THEN <<FallbackDefault>> ELSE <<env>>, StatusFound)
fallback(env, reason) ==
    LET location == IF env = "" THEN <<FallbackDefault>> ELSE <<env>>
        withReason == IF reason # << >>
                      THEN location \o <<"#reason=">> \o QueryEscape(reason)
                      ELSE location
    IN  Redirect("", withReason, StatusFound)

\* redirectHandler(w, r): the response, and what getRedirect returned to it
redirectHandlerMutNoHeader(lookup, env, host, url) ==
    LET answer == lookup[RedirectName(host)]
        out == getRedirect(answer.txt, url)
    IN  IF answer.err # OK
        THEN [resp |-> fallback(env, CouldNotResolve(answer.err)), out |-> NoOut]
        ELSE IF out.err # OK
        THEN [resp |-> fallback(env, ErrorText(out.err)), out |-> out]
        ELSE [resp |-> Redirect("", out.redirect.Location, out.redirect.Status), out |-> out]
redirectHandlerMutFound(lookup, env, host, url) ==
    LET answer == lookup[RedirectName(host)]
        out == getRedirect(answer.txt, url)
    IN  IF answer.err # OK
        THEN [resp |-> fallback(env, CouldNotResolve(answer.err)), out |-> NoOut]
        ELSE IF out.err # OK
        THEN [resp |-> fallback(env, ErrorText(out.err)), out |-> out]
        ELSE [resp |-> Redirect("", out.redirect.Location, StatusFound), out |-> out]
redirectHandler(lookup, env, host, url) ==
    LET hostname == RedirectName(host)
        answer == lookup[hostname]
        out == getRedirect(answer.txt, url)
    IN  IF answer.err # OK
        THEN [resp |-> fallback(env, CouldNotResolve(answer.err)), out |-> NoOut]
        ELSE IF out.err # OK
        THEN [resp |-> fallback(env, ErrorText(out.err)), out |-> out]
        ELSE [resp |-> Redirect(IF out.redirect.Status = StatusMovedPermanently
                                THEN MaxAge ELSE "",
                                out.redirect.Location, out.redirect.Status),
              out |-> out]

(***************************************************************************)
(* The TXT records and request paths the model draws its inputs from.      *)
(***************************************************************************)
GitHub == "https://github.com/holic"
Example == "https://example.com"
Rec(perm, from, to, code) ==
    <<KwRedirects>> \o (IF perm THEN <<KwPermanently>> ELSE << >>)
    \o (IF from # << >> THEN <<KwFrom, from>> ELSE << >>)
    \o <<KwTo, to>>
    \o (IF code # << >> THEN <<KwWith, code>> ELSE << >>)

RecTestStar == Rec(FALSE, <<"/", "t", "/", Star>>, <<GitHub, "/", Star>>, << >>)
RecTestX == Rec(TRUE, <<"/", "t", "/", "x">>, <<Example, "/", "x">>, << >>)
RecNoGlob == Rec(FALSE, <<"/", "n", "/">>, <<GitHub, "/", "n">>, << >>)
RecCatchAll == Rec(FALSE, << >>, <<GitHub>>, << >>)
RecCatchAllPerm == Rec(TRUE, << >>, <<Example, "/">>, << >>)
RecCatchAll308 == Rec(FALSE, << >>, <<Example, "/">>, <<"3", "0", "8">>)
RecSpf == << <<"v=spf1">>, <<"include:example.com">>, <<"~all">> >>
\* a wildcard source whose target cannot take the captured suffix
RecBadStar == Rec(FALSE, <<"/", "t", "/", Star>>, <<GitHub>>, << >>)

\* a wildcard that does not end a path segment, in a record that says
\* "permanently" together with an explicit code
RecTStar307 == Rec(TRUE, <<"/", "t", Star>>, <<Example, "/", Star>>, <<"3", "0", "7">>)

Records == {RecTestStar, RecTestX, RecNoGlob, RecCatchAll, RecCatchAllPerm,
            RecCatchAll308, RecSpf, RecBadStar, RecTStar307}

Paths == { <<"/">>, <<"/", "t", "/">>, <<"/", "t", "/", "x">>, <<"/", "n", "/">>,
           <<"/", "t">>, <<"/", "c">>, <<"/", "t", "x">> }


VARIABLES
    counts,     \* rateLimitedCache.counts
    weekOf,     \* rateLimitedCache.weekOf
    mu,         \* rateLimitedCache.mu: Free or the worker holding it
    files,      \* the embedded autocert.Cache: key -> stored data
    now,        \* time.Now()
    pc,         \* per worker: position inside Put
    key,        \* per worker: argument key
    data,       \* per worker: argument data
    apex,       \* per worker: local apex
    result,     \* per worker: the error returned by Put
    storeRet,   \* history: per worker, what the underlying Put returned to its current call
    issued,     \* history: per apex, domain Puts the underlying store accepted
                \*          since the stored bucket last changed
    seenWeek,   \* history: the week number of the clock reading of the last locked Put
    rollovers,  \* history: 1 once a locked Put has read the clock in a new week
    cleared,    \* history: issued as it was when the clock was last read in a new week
    got,        \* the last Get or Delete on the cache: its answer, and the counters and lock it ran beside
    entered,    \* history: per worker, counts and weekOf as its current call found them under the lock
    dns,        \* what lookupTXT answers for _redirect.Host
    reqUrl,     \* the path of the last request resolved
    resolved,   \* what getRedirect returned for it
    admitted,   \* what hostPolicy returned last
    fallbackUrl, \* what os.Getenv("FALLBACK_URL") returned to the last request served
    resp        \* the response redirectHandler wrote last

cacheVars == <<counts, weekOf, mu, files, now, pc, key, data, apex, result,
               storeRet, issued, seenWeek, rollovers, cleared, entered, got>>
httpVars == <<dns, reqUrl, resolved, admitted, fallbackUrl, resp>>
vars == <<cacheVars, httpVars>>

\* lookupTXT: the resolver, as the function name -> answer
lookupTXT ==
    [name \in {RedirectName(Host), Host} |->
        IF name = RedirectName(Host) THEN dns ELSE [err |-> NoSuchHost, txt |-> << >>]]


\* newRateLimitedCache(dir) called at time t
newRateLimitedCache(t) ==
    /\ counts = EmptyCounts
    /\ weekOf = Truncate(t, WeekLen)
    /\ mu = Free
    /\ files = [k \in Keys |-> NoData]

InitCache ==
    /\ now \in {0, 2 * TickStep}
    /\ newRateLimitedCache(now)
    /\ pc = [w \in Workers |-> "idle"]
    /\ key = [w \in Workers |-> NoKey]
    /\ data = [w \in Workers |-> NoData]
    /\ apex = [w \in Workers |-> NoApex]
    /\ result = [w \in Workers |-> NoResult]
    /\ storeRet = [w \in Workers |-> NoResult]
    /\ issued = EmptyCounts
    /\ seenWeek = now \div WeekLen
    /\ rollovers = 0
    /\ cleared = EmptyCounts
    /\ entered = [w \in Workers |-> NoEntry]
    /\ got = NoGot

\* the wall clock advances
Tick ==
    /\ now + TickStep <= MaxNow
    /\ now' = now + TickStep
    /\ UNCHANGED <<counts, weekOf, mu, files, pc, key, data, apex, result,
                   storeRet, issued, seenWeek, rollovers, cleared, entered, got, httpVars>>

\* Put is called: apex, err := publicsuffix.EffectiveTLDPlusOne(key)
PutEnter(w, k, d) ==
    /\ pc[w] = "idle"
    /\ key' = [key EXCEPT ![w] = k]
    /\ data' = [data EXCEPT ![w] = d]
    /\ LET r == EffectiveTLDPlusOne(k)
       IN  /\ apex' = [apex EXCEPT ![w] = r.apex]
           /\ pc' = [pc EXCEPT ![w] = IF r.err THEN "bypass" ELSE "lock"]
    /\ result' = [result EXCEPT ![w] = NoResult]
    /\ storeRet' = [storeRet EXCEPT ![w] = NoResult]
    /\ UNCHANGED <<counts, weekOf, mu, files, now, issued, seenWeek, rollovers, cleared, entered, got, httpVars>>

\* the underlying c.Cache.Put(ctx, key, data) returning e: the files it can
\* leave.  A Put that returns nil has written the file.  A Put that returns
\* an error may have written it all the same (a store that gives up waiting
\* when ctx is done while its write goes on) or may have left the files as
\* they were; the wrapper cannot tell.
CachePut(f, k, d, e) ==
    IF e = OK THEN {[f EXCEPT ![k] = d]} ELSE {f, [f EXCEPT ![k] = d]}

\* err != nil: return c.Cache.Put(ctx, key, data)
PutBypassMutLimited(w, e) ==
    /\ pc[w] = "bypass"
    /\ LET r == IF \E a \in Apexes : counts[a] >= Limit THEN RateLimitExceeded ELSE e
       IN  /\ IF r = RateLimitExceeded THEN files' = files
              ELSE files' \in CachePut(files, key[w], data[w], e)
           /\ storeRet' = [storeRet EXCEPT ![w] = IF r = RateLimitExceeded THEN NoResult ELSE e]
           /\ result' = [result EXCEPT ![w] = r]
    /\ pc' = [pc EXCEPT ![w] = "done"]
    /\ UNCHANGED <<counts, weekOf, mu, now, key, data, apex, issued, seenWeek, rollovers, cleared, entered, got, httpVars>>
PutBypass(w, e) ==
    /\ pc[w] = "bypass"
    /\ files' \in CachePut(files, key[w], data[w], e)
    /\ storeRet' = [storeRet EXCEPT ![w] = e]
    /\ result' = [result EXCEPT ![w] = e]
    /\ pc' = [pc EXCEPT ![w] = "done"]
    /\ UNCHANGED <<counts, weekOf, mu, now, key, data, apex, issued, seenWeek, rollovers, cleared, entered, got, httpVars>>

\* sync.Mutex.Lock returns only when no other worker holds mu
CanLockMutNoExclusion(m) == TRUE
CanLock(m) == m = Free

\* c.mu.Lock(); defer c.mu.Unlock()
PutLock(w) ==
    /\ pc[w] = "lock"
    /\ CanLock(mu)
    /\ mu' = w
    /\ pc' = [pc EXCEPT ![w] = "week"]
    /\ entered' = [entered EXCEPT ![w] = [counts |-> counts, weekOf |-> weekOf]]
    /\ UNCHANGED <<counts, weekOf, files, now, key, data, apex, result,
                   storeRet, issued, seenWeek, rollovers, cleared, got, httpVars>>

\* week := time.Now().Truncate(7 * 24 * time.Hour)
\* if !week.Equal(c.weekOf) { c.counts = make(map[string]int); c.weekOf = week }
RolloverMutKeepCounts(cnts, wk, t) ==
    LET week == Truncate(t, WeekLen)
    IN  IF week # wk THEN [counts |-> cnts, weekOf |-> week]
        ELSE [counts |-> cnts, weekOf |-> wk]
Rollover(cnts, wk, t) ==
    LET week == Truncate(t, WeekLen)
    IN  IF week # wk THEN [counts |-> EmptyCounts, weekOf |-> week]
        ELSE [counts |-> cnts, weekOf |-> wk]

PutWeek(w) ==
    /\ pc[w] = "week"
    /\ LET r == Rollover(counts, weekOf, now)
       IN  /\ counts' = r.counts
           /\ weekOf' = r.weekOf
    /\ issued' = IF now \div WeekLen # seenWeek THEN EmptyCounts ELSE issued
    /\ rollovers' = IF now \div WeekLen # seenWeek THEN 1 ELSE rollovers
    /\ cleared' = IF now \div WeekLen # seenWeek THEN issued ELSE cleared
    /\ seenWeek' = now \div WeekLen
    /\ pc' = [pc EXCEPT ![w] = "check"]
    /\ UNCHANGED <<mu, files, now, key, data, apex, result, storeRet, entered, got, httpVars>>

\* if c.counts[apex] >= 2
OverQuotaMutThree(cnts, a) == cnts[a] >= Limit + 1
OverQuotaMutAnyApex(cnts, a) == \E b \in Apexes : cnts[b] >= Limit
OverQuota(cnts, a) == cnts[a] >= Limit

\* return fmt.Errorf("rate limit exceeded: ..."), with the deferred Unlock
PutCheckMutStoreFirst(w) ==
    /\ pc[w] = "check"
    /\ IF OverQuota(counts, apex[w])
       THEN /\ result' = [result EXCEPT ![w] = RateLimitExceeded]
            /\ mu' = Free
            /\ pc' = [pc EXCEPT ![w] = "done"]
            /\ files' \in CachePut(files, key[w], data[w], OK)
       ELSE /\ pc' = [pc EXCEPT ![w] = "store"]
            /\ UNCHANGED <<result, mu, files>>
    /\ UNCHANGED <<counts, weekOf, now, key, data, apex, storeRet, issued, seenWeek, rollovers, cleared, entered, got, httpVars>>
PutCheckMutCountEarly(w) ==
    /\ pc[w] = "check"
    /\ IF OverQuota(counts, apex[w])
       THEN /\ result' = [result EXCEPT ![w] = RateLimitExceeded]
            /\ mu' = Free
            /\ pc' = [pc EXCEPT ![w] = "done"]
            /\ UNCHANGED counts
       ELSE /\ pc' = [pc EXCEPT ![w] = "store"]
            /\ counts' = [counts EXCEPT ![apex[w]] = @ + 1]
            /\ UNCHANGED <<result, mu>>
    /\ UNCHANGED <<weekOf, files, now, key, data, apex, storeRet, issued, seenWeek, rollovers, cleared, entered, got, httpVars>>
PutCheckMutResetOnReject(w) ==
    /\ pc[w] = "check"
    /\ IF OverQuota(counts, apex[w])
       THEN /\ result' = [result EXCEPT ![w] = RateLimitExceeded]
            /\ mu' = Free
            /\ pc' = [pc EXCEPT ![w] = "done"]
            /\ counts' = [counts EXCEPT ![apex[w]] = 0]
       ELSE /\ pc' = [pc EXCEPT ![w] = "store"]
            /\ UNCHANGED <<result, mu, counts>>
    /\ UNCHANGED <<weekOf, files, now, key, data, apex, storeRet, issued, seenWeek, rollovers, cleared, entered, got, httpVars>>
PutCheck(w) ==
    /\ pc[w] = "check"
    /\ IF OverQuota(counts, apex[w])
       THEN /\ result' = [result EXCEPT ![w] = RateLimitExceeded]
            /\ mu' = Free
            /\ pc' = [pc EXCEPT ![w] = "done"]
       ELSE /\ pc' = [pc EXCEPT ![w] = "store"]
            /\ UNCHANGED <<result, mu>>
    /\ UNCHANGED <<counts, weekOf, files, now, key, data, apex, storeRet, issued, seenWeek, rollovers, cleared, entered, got, httpVars>>

\* if err := c.Cache.Put(ctx, key, data); err != nil { return err }
PutStoreMutCountFirst(w, e) ==
    /\ pc[w] = "store"
    /\ files' \in CachePut(files, key[w], data[w], e)
    /\ storeRet' = [storeRet EXCEPT ![w] = e]
    /\ IF e = OK
       THEN /\ issued' = [issued EXCEPT ![apex[w]] = @ + 1]
            /\ pc' = [pc EXCEPT ![w] = "incr"]
            /\ UNCHANGED <<result, mu, counts>>
       ELSE /\ result' = [result EXCEPT ![w] = e]
            /\ mu' = Free
            /\ pc' = [pc EXCEPT ![w] = "done"]
            /\ counts' = [counts EXCEPT ![apex[w]] = @ + 1]
            /\ UNCHANGED issued
    /\ UNCHANGED <<weekOf, now, key, data, apex, seenWeek, rollovers, cleared, entered, got, httpVars>>
PutStoreMutKeepLock(w, e) ==
    /\ pc[w] = "store"
    /\ files' \in CachePut(files, key[w], data[w], e)
    /\ storeRet' = [storeRet EXCEPT ![w] = e]
    /\ IF e = OK
       THEN /\ issued' = [issued EXCEPT ![apex[w]] = @ + 1]
            /\ pc' = [pc EXCEPT ![w] = "incr"]
            /\ UNCHANGED result
       ELSE /\ result' = [result EXCEPT ![w] = e]
            /\ pc' = [pc EXCEPT ![w] = "done"]
            /\ UNCHANGED issued
    /\ UNCHANGED <<counts, weekOf, mu, now, key, data, apex, seenWeek, rollovers, cleared, entered, got, httpVars>>
PutStore(w, e) ==
    /\ pc[w] = "store"
    /\ files' \in CachePut(files, key[w], data[w], e)
    /\ storeRet' = [storeRet EXCEPT ![w] = e]
    /\ IF e = OK
       THEN /\ issued' = [issued EXCEPT ![apex[w]] = @ + 1]
            /\ pc' = [pc EXCEPT ![w] = "incr"]
            /\ UNCHANGED <<result, mu>>
       ELSE /\ result' = [result EXCEPT ![w] = e]
            /\ mu' = Free
            /\ pc' = [pc EXCEPT ![w] = "done"]
            /\ UNCHANGED issued
    /\ UNCHANGED <<counts, weekOf, now, key, data, apex, seenWeek, rollovers, cleared, entered, got, httpVars>>

\* c.counts[apex]++
IncrementMutSetOne(cnts, a) == [cnts EXCEPT ![a] = 1]
Increment(cnts, a) == [cnts EXCEPT ![a] = @ + 1]

\* c.counts[apex]++; return nil, with the deferred Unlock
PutIncr(w) ==
    /\ pc[w] = "incr"
    /\ counts' = Increment(counts, apex[w])
    /\ result' = [result EXCEPT ![w] = OK]
    /\ mu' = Free
    /\ pc' = [pc EXCEPT ![w] = "done"]
    /\ UNCHANGED <<weekOf, files, now, key, data, apex, storeRet, issued, seenWeek, rollovers, cleared, entered, got, httpVars>>

\* c.Get(ctx, key): the method of the embedded autocert.Cache, which
\* rateLimitedCache does not override
GetMutLimited(k) ==
    /\ got' = [op |-> "Get", key |-> k,
               ret |-> IF OverQuota(counts, EffectiveTLDPlusOne(k).apex) THEN RateLimitExceeded
                       ELSE IF files[k] = NoData THEN ErrCacheMiss ELSE files[k],
               counts |-> counts, mu |-> mu]
    /\ UNCHANGED <<counts, weekOf, mu, files, now, pc, key, data, apex, result,
                   storeRet, issued, seenWeek, rollovers, cleared, entered, httpVars>>
Get(k) ==
    /\ got' = [op |-> "Get", key |-> k,
               ret |-> IF files[k] = NoData THEN ErrCacheMiss ELSE files[k],
               counts |-> counts, mu |-> mu]
    /\ UNCHANGED <<counts, weekOf, mu, files, now, pc, key, data, apex, result,
                   storeRet, issued, seenWeek, rollovers, cleared, entered, httpVars>>

\* c.Delete(ctx, key): likewise the embedded method
Delete(k) ==
    /\ files' = [files EXCEPT ![k] = NoData]
    /\ got' = [op |-> "Delete", key |-> k, ret |-> OK, counts |-> counts, mu |-> mu]
    /\ UNCHANGED <<counts, weekOf, mu, now, pc, key, data, apex, result,
                   storeRet, issued, seenWeek, rollovers, cleared, entered, httpVars>>

\* the caller takes the returned error
PutReturn(w) ==
    /\ pc[w] = "done"
    /\ pc' = [pc EXCEPT ![w] = "idle"]
    /\ key' = [key EXCEPT ![w] = NoKey]
    /\ data' = [data EXCEPT ![w] = NoData]
    /\ apex' = [apex EXCEPT ![w] = NoApex]
    /\ result' = [result EXCEPT ![w] = NoResult]
    /\ storeRet' = [storeRet EXCEPT ![w] = NoResult]
    /\ entered' = [entered EXCEPT ![w] = NoEntry]
    /\ UNCHANGED <<counts, weekOf, mu, files, now, issued, seenWeek, rollovers, cleared, got, httpVars>>

\* a TXT record is added at _redirect.Host; results of earlier calls are dropped
DnsPublish(record) ==
    /\ dns.err = OK
    /\ Len(dns.txt) < MaxRecords
    /\ \A i \in 1..Len(dns.txt) : dns.txt[i] # record
    /\ dns' = [dns EXCEPT !.txt = Append(@, record)]
    /\ reqUrl' = << >>
    /\ resolved' = NoOut
    /\ admitted' = NoResult
    /\ fallbackUrl' = NoResult
    /\ resp' = NoResp
    /\ UNCHANGED cacheVars

\* the first TXT record at _redirect.Host is removed
DnsWithdraw ==
    /\ dns.err = OK
    /\ Len(dns.txt) > 0
    /\ dns' = [dns EXCEPT !.txt = Tail(@)]
    /\ reqUrl' = << >>
    /\ resolved' = NoOut
    /\ admitted' = NoResult
    /\ fallbackUrl' = NoResult
    /\ resp' = NoResp
    /\ UNCHANGED cacheVars

\* the lookup of _redirect.Host starts failing
DnsFail(err) ==
    /\ dns.err = OK
    /\ dns' = [err |-> err, txt |-> << >>]
    /\ reqUrl' = << >>
    /\ resolved' = NoOut
    /\ admitted' = NoResult
    /\ fallbackUrl' = NoResult
    /\ resp' = NoResp
    /\ UNCHANGED cacheVars

\* the lookup of _redirect.Host works again, with no record published
DnsRecover ==
    /\ dns.err # OK
    /\ dns' = [err |-> OK, txt |-> << >>]
    /\ reqUrl' = << >>
    /\ resolved' = NoOut
    /\ admitted' = NoResult
    /\ fallbackUrl' = NoResult
    /\ resp' = NoResp
    /\ UNCHANGED cacheVars

\* a direct call getRedirect(txt, url) on the records published; the model
\* keeps the outcome of the last call only
CallGetRedirect(url) ==
    /\ dns.err = OK
    /\ reqUrl' = url
    /\ resolved' = getRedirect(dns.txt, url)
    /\ admitted' = NoResult
    /\ fallbackUrl' = NoResult
    /\ resp' = NoResp
    /\ UNCHANGED <<dns, cacheVars>>

\* a request GET url with Host header Host is served by redirectHandler, in
\* a process whose environment has FALLBACK_URL = env
ServeHTTP(url, env) ==
    LET served == redirectHandler(lookupTXT, env, Host, url)
    IN  /\ reqUrl' = url
        /\ fallbackUrl' = env
        /\ resolved' = served.out
        /\ resp' = served.resp
        /\ admitted' = NoResult
        /\ UNCHANGED <<dns, cacheVars>>

\* autocert asks hostPolicy(ctx, host) before issuing
CallHostPolicy ==
    /\ admitted' = hostPolicy(lookupTXT, Host)
    /\ reqUrl' = << >>
    /\ resolved' = NoOut
    /\ fallbackUrl' = NoResult
    /\ resp' = NoResp
    /\ UNCHANGED <<dns, cacheVars>>

InitHttp ==
    /\ reqUrl = << >>
    /\ resolved = NoOut
    /\ admitted = NoResult
    /\ fallbackUrl = NoResult
    /\ resp = NoResp

\* one client thread (the certificate manager) using the cache
Client == 1

Init ==
    /\ InitCache
    /\ InitHttp
    /\ dns = [err |-> OK, txt |-> << >>]

Next ==
    \/ Tick
    \/ \E k \in Keys, d \in Datas : PutEnter(Client, k, d)
    \/ \E e \in StoreErrors \cup {OK} : PutBypass(Client, e)
    \/ PutLock(Client)
    \/ PutWeek(Client)
    \/ PutCheck(Client)
    \/ \E e \in StoreErrors \cup {OK} : PutStore(Client, e)
    \/ PutIncr(Client)
    \/ PutReturn(Client)

Spec == Init /\ [][Next]_vars

\* every worker calls Put concurrently with keys of one apex
NextConc ==
    \/ Tick
    \/ \E w \in Workers, k \in SameApexKeys : PutEnter(w, k, "certA")
    \/ \E w \in Workers : PutLock(w)
    \/ \E w \in Workers : PutWeek(w)
    \/ \E w \in Workers : PutCheck(w)
    \/ \E w \in Workers, e \in {OK, "EIO"} : PutStore(w, e)
    \/ \E w \in Workers : PutIncr(w)
    \/ \E w \in Workers : PutReturn(w)

SpecConc == Init /\ [][NextConc]_vars

\* the certificate manager puts, gets and deletes certificates of one apex;
\* Get and Delete may run while a Put is under way
NextGet ==
    \/ Tick
    \/ \E k \in SameApexKeys : PutEnter(Client, k, "certA")
    \/ PutLock(Client)
    \/ PutWeek(Client)
    \/ PutCheck(Client)
    \/ \E e \in {OK, "EIO"} : PutStore(Client, e)
    \/ PutIncr(Client)
    \/ PutReturn(Client)
    \/ \E k \in SameApexKeys : Get(k)
    \/ \E k \in SameApexKeys : Delete(k)
SpecGet == Init /\ [][NextGet]_vars

\* scheduling: a goroutine inside Put keeps running, every underlying store
\* call returns, and a goroutine blocked in c.mu.Lock() is not passed over
\* for ever (sync.Mutex hands the lock to a starving waiter)
Fairness ==
    \A w \in Workers :
        /\ SF_vars(PutLock(w))
        /\ WF_vars(PutWeek(w))
        /\ WF_vars(PutCheck(w))
        /\ WF_vars(\E e \in {OK, "EIO"} : PutStore(w, e))
        /\ WF_vars(PutIncr(w))
\* every worker calls Put, again and again, for one certificate
NextLive ==
    \/ Tick
    \/ \E w \in Workers : PutEnter(w, KeySub1Example, "certA")
    \/ \E w \in Workers : PutLock(w)
    \/ \E w \in Workers : PutWeek(w)
    \/ \E w \in Workers : PutCheck(w)
    \/ \E w \in Workers, e \in {OK, "EIO"} : PutStore(w, e)
    \/ \E w \in Workers : PutIncr(w)
    \/ \E w \in Workers : PutReturn(w)
SpecLive == Init /\ [][NextLive]_vars /\ Fairness

\* requests and admission checks against changing TXT answers
NextHttp ==
    \/ \E record \in Records : DnsPublish(record)
    \/ DnsWithdraw
    \/ \E err \in DnsErrors : DnsFail(err)
    \/ DnsRecover
    \/ \E url \in Paths : CallGetRedirect(url)
    \/ \E url \in Paths, env \in FallbackUrls : ServeHTTP(url, env)
    \/ CallHostPolicy

\* the server started at the zero time: the clock plays no part in serving
InitServer == Init /\ now = 0
SpecHttp == InitServer /\ [][NextHttp]_vars

(***************************************************************************)
(* Properties of the rate-limited cache.                                   *)
(***************************************************************************)
\* the worker's call is for a domain key and has returned
ReturnedDomainPut(w) == pc[w] = "done" /\ apex[w] # NoApex
\* the domain Puts of the apex the store had accepted in the bucket before this call
PriorIssued(w) == issued[apex[w]] - (IF storeRet[w] = OK THEN 1 ELSE 0)
\* the step is worker w leaving position p
Leaves(w, p) == pc[w] = p /\ pc'[w] # p

\* C1: with one client, a domain Put that finds fewer than 2 Puts of its apex
\* accepted in the current bucket is not rate limited and succeeds when the
\* store accepts it; one that finds 2 fails with RateLimitExceeded, whichever
\* subdomain keys were used.
C1_FirstTwoThenLimited ==
    \A w \in Workers : ReturnedDomainPut(w) =>
        /\ PriorIssued(w) < 2 =>
              /\ result[w] # RateLimitExceeded
              /\ storeRet[w] # NoResult
              /\ (storeRet[w] = OK => result[w] = OK)
        /\ PriorIssued(w) >= 2 => result[w] = RateLimitExceeded

\* the third Put of example.com is rejected after sub1 and sub2 were stored
C1_Witness ==
    /\ ReturnedDomainPut(Client)
    /\ apex[Client] = ApexExample
    /\ result[Client] = RateLimitExceeded
    /\ issued[ApexExample] = 2
    /\ files[KeySub1Example] # NoData
    /\ files[KeySub2Example] # NoData
    /\ rollovers = 0

\* C2: with concurrent workers, at most one Put is between its Lock and its
\* Unlock, the store accepts at most 2 domain Puts per apex and bucket, and
\* no counter exceeds 2.
C2_Serialized ==
    /\ Cardinality({w \in Workers : pc[w] \in {"week", "check", "store", "incr"}}) <= 1
    /\ \A w \in Workers : pc[w] \in {"week", "check", "store", "incr"} => mu = w
    /\ \A a \in Apexes : issued[a] <= 2 /\ counts[a] <= 2

\* one worker is about to count the second Put while another waits for the lock
C2_Witness ==
    \E w1, w2 \in Workers :
        /\ w1 # w2
        /\ pc[w1] = "incr"
        /\ pc[w2] = "lock"
        /\ issued[ApexExample] = 2

\* C5: a Put that reads the clock in another bucket than the stored one clears
\* every counter and adopts the bucket before its quota check; the quota check
\* that follows rejects exactly when 2 Puts of the apex were accepted since.
C5_Rollover ==
    [][\A w \in Workers :
        /\ (Leaves(w, "week") /\ Truncate(now, WeekLen) # weekOf) =>
              /\ counts' = EmptyCounts
              /\ weekOf' = Truncate(now, WeekLen)
              /\ pc'[w] = "check"
        /\ (Leaves(w, "week") /\ Truncate(now, WeekLen) = weekOf) =>
              /\ counts' = counts
              /\ weekOf' = weekOf
        /\ Leaves(w, "check") =>
              /\ weekOf = Truncate(seenWeek * WeekLen, WeekLen)
              /\ (issued[apex[w]] >= 2 <=> result'[w] = RateLimitExceeded)
              /\ (issued[apex[w]] < 2 <=> pc'[w] = "store")]_vars

\* example.com was exhausted, the bucket changed, 2 more Puts were accepted
\* and the next one is rejected
C5_Witness ==
    /\ rollovers = 1
    /\ cleared[ApexExample] = 2
    /\ issued[ApexExample] = 2
    /\ ReturnedDomainPut(Client)
    /\ apex[Client] = ApexExample
    /\ result[Client] = RateLimitExceeded

\* C6: a failing store Put makes the wrapper return the store's error and
\* leaves every counter as it was; whenever the lock is free each counter
\* equals the number of accepted Puts, so failed Puts cost no quota.
C6_StoreFailureKeepsQuota ==
    [][/\ \A w \in Workers :
            (Leaves(w, "store") /\ storeRet'[w] # OK) =>
                /\ result'[w] = storeRet'[w]
                /\ result'[w] \in StoreErrors
                /\ pc'[w] = "done"
                /\ counts' = counts
       /\ (mu' = Free => counts' = issued')]_vars

\* a Put failed in the store after one Put of its apex had been counted
C6_Witness ==
    /\ ReturnedDomainPut(Client)
    /\ result[Client] \in StoreErrors
    /\ counts[apex[Client]] = 1
    /\ issued[apex[Client]] = 1

\* C7: a domain Put whose counter is at 2 or more at the quota check fails with
\* RateLimitExceeded without invoking the underlying Put; the files stay as
\* they were.
C7_RejectionSkipsStore ==
    [][\A w \in Workers :
        /\ (Leaves(w, "check") /\ counts[apex[w]] >= 2) =>
              /\ result'[w] = RateLimitExceeded
              /\ pc'[w] = "done"
              /\ storeRet'[w] = NoResult
              /\ files' = files
        /\ (pc'[w] = "done" /\ result'[w] = RateLimitExceeded) => storeRet'[w] = NoResult]_vars

\* a rejected Put carried other data than the file of its key holds
C7_Witness ==
    /\ ReturnedDomainPut(Client)
    /\ result[Client] = RateLimitExceeded
    /\ files[key[Client]] # NoData
    /\ files[key[Client]] # data[Client]

\* C8: while the bucket stays the same a counter changes only by the increment
\* of a Put of its own apex, and a Put is rejected exactly when the counter of
\* its own apex is at 2 or more.
C8_ApexIndependence ==
    [][/\ weekOf' = weekOf =>
            \A b \in Apexes : counts'[b] # counts[b] =>
                /\ counts'[b] = counts[b] + 1
                /\ \E w \in Workers : Leaves(w, "incr") /\ apex[w] = b
       /\ \A w \in Workers : Leaves(w, "check") =>
            (counts[apex[w]] >= 2 <=> result'[w] = RateLimitExceeded)]_vars

\* a Put of other.org succeeded while example.com was exhausted
C8_Witness ==
    /\ ReturnedDomainPut(Client)
    /\ apex[Client] = ApexOther
    /\ result[Client] = OK
    /\ counts[ApexExample] = 2
    /\ counts[ApexOther] = 1

\* C9: a Put of a key without apex goes straight to the underlying Put and
\* returns what it returned, never RateLimitExceeded, whatever the counters
\* hold, and changes no counter, not the bucket and not the lock.
C9_NonDomainBypass ==
    [][\A w \in Workers :
        /\ (Leaves(w, "idle") /\ key'[w] = KeyAccount) => pc'[w] = "bypass"
        /\ Leaves(w, "bypass") =>
              /\ pc'[w] = "done"
              /\ storeRet'[w] # NoResult
              /\ result'[w] = storeRet'[w]
              /\ result'[w] # RateLimitExceeded
              /\ (storeRet'[w] = OK => files' = [files EXCEPT ![key[w]] = data[w]])
              /\ counts' = counts
              /\ weekOf' = weekOf
              /\ mu' = mu
        /\ (pc'[w] = "done" /\ key'[w] = KeyAccount) => result'[w] # RateLimitExceeded]_vars

\* the account key was stored while both apexes were exhausted
C9_Witness ==
    /\ pc[Client] = "done"
    /\ key[Client] = KeyAccount
    /\ result[Client] = OK
    /\ files[KeyAccount] = data[Client]
    /\ counts[ApexExample] = 2
    /\ counts[ApexOther] = 2

(***************************************************************************)
(* Properties of the resolver and of the admission gate.                   *)
(***************************************************************************)
\* getRedirect has returned for the request reqUrl on the records dns.txt
Resolved == resolved.err # NoResult
\* record i of the answer parses into a scoped rule that translates reqUrl
ScopedMatch(i) ==
    /\ i \in 1..Len(dns.txt)
    /\ ~Parse(dns.txt[i]).nil
    /\ Parse(dns.txt[i]).From # << >>
    /\ ~Translate(reqUrl, Parse(dns.txt[i])).nil
\* record i of the answer parses into a catch-all
CatchAllAt(i) ==
    /\ i \in 1..Len(dns.txt)
    /\ ~Parse(dns.txt[i]).nil
    /\ Parse(dns.txt[i]).From = << >>

\* C3: when some scoped rule of the records translates the path, getRedirect
\* returns the translation of a scoped rule that matches and not that of a
\* catch-all, wherever the catch-alls stand among the records.
C3_ScopedBeatsCatchAll ==
    (Resolved /\ \E i \in 1..Len(dns.txt) : ScopedMatch(i)) =>
        /\ resolved.err = OK
        /\ ScopedMatch(resolved.rule)
        /\ ~CatchAllAt(resolved.rule)
        /\ resolved.redirect = Translate(reqUrl, Parse(dns.txt[resolved.rule]))

\* a scoped rule answered although a catch-all with another target precedes it
C3_Witness ==
    /\ Resolved
    /\ ScopedMatch(resolved.rule)
    /\ \E i \in 1..Len(dns.txt) :
          /\ i < resolved.rule
          /\ CatchAllAt(i)
          /\ Parse(dns.txt[i]).To # resolved.redirect.Location

\* C4: hostPolicy allows the host exactly when the lookup of _redirect.<host>
\* succeeds and some returned record parses, scoped or catch-all; it denies
\* with the DNS failure when the lookup fails and with "no valid config" when
\* no record parses, the empty answer included.
C4_AdmissionGate ==
    admitted # NoResult =>
        /\ admitted = OK <=>
              (dns.err = OK /\ \E i \in 1..Len(dns.txt) : ~Parse(dns.txt[i]).nil)
        /\ dns.err # OK => admitted = DNSLookupFailed
        /\ (dns.err = OK /\ admitted # OK) => admitted = NoValidConfig
        /\ (dns.err = OK /\ dns.txt = << >>) => admitted = NoValidConfig

\* the host is admitted on an answer whose first record does not parse and
\* whose rules are all scoped and redirect no request for "/"
C4_Witness ==
    /\ admitted = OK
    /\ Len(dns.txt) >= 2
    /\ Parse(dns.txt[1]).nil
    /\ \A i \in 1..Len(dns.txt) : ~CatchAllAt(i)
    /\ getRedirect(dns.txt, <<"/">>).err = NoPathsMatched

\* C10: when one or more scoped rules translate the path, getRedirect returns
\* the translation of the earliest such record and has parsed no record after
\* it.
C10_FirstScopedMatchWins ==
    (Resolved /\ \E i \in 1..Len(dns.txt) : ScopedMatch(i)) =>
        LET first == CHOOSE i \in 1..Len(dns.txt) :
                        ScopedMatch(i) /\ \A j \in 1..(i - 1) : ~ScopedMatch(j)
        IN  /\ resolved.err = OK
            /\ resolved.rule = first
            /\ resolved.redirect = Translate(reqUrl, Parse(dns.txt[first]))
            /\ resolved.parsed = first

\* two scoped rules translate the path to different redirects, records follow
\* the first of them, and the first one answered
C10_Witness ==
    /\ Resolved
    /\ ScopedMatch(resolved.rule)
    /\ resolved.rule < Len(dns.txt)
    /\ \E j \in 1..Len(dns.txt) :
          /\ j > resolved.rule
          /\ ScopedMatch(j)
          /\ Translate(reqUrl, Parse(dns.txt[j])) # resolved.redirect

\* C11: when no scoped rule translates the path, getRedirect returns the
\* target, verbatim, and the status of the first record in record order that
\* parses into a catch-all; it never fails while such a record exists.
C11_CatchAllFallback ==
    (Resolved /\ \E i \in 1..Len(dns.txt) : CatchAllAt(i)) =>
        LET first == CHOOSE i \in 1..Len(dns.txt) :
                        CatchAllAt(i) /\ \A j \in 1..(i - 1) : ~CatchAllAt(j)
        IN  /\ resolved.err = OK
            /\ ~resolved.redirect.nil
            /\ (~\E i \in 1..Len(dns.txt) : ScopedMatch(i)) =>
                  /\ resolved.rule = first
                  /\ resolved.redirect.Location = Parse(dns.txt[first]).To
                  /\ resolved.redirect.Status = Parse(dns.txt[first]).Status
                  /\ resolved.parsed = Len(dns.txt)

\* the first of two catch-alls with different targets answered, after a scoped
\* rule that does not match
C11_Witness ==
    /\ Resolved
    /\ CatchAllAt(resolved.rule)
    /\ \E i \in 1..Len(dns.txt) :
          /\ ~Parse(dns.txt[i]).nil
          /\ Parse(dns.txt[i]).From # << >>
    /\ \E j \in 1..Len(dns.txt) :
          /\ j > resolved.rule
          /\ CatchAllAt(j)
          /\ Parse(dns.txt[j]).To # resolved.redirect.Location

\* the records of txt that parse, in their order
Parseable(txt) == SelectSeq(txt, LAMBDA record : ~Parse(record).nil)
\* record i of the answer parses into a rule that translates reqUrl
RuleMatch(i) ==
    /\ i \in 1..Len(dns.txt)
    /\ ~Parse(dns.txt[i]).nil
    /\ ~Translate(reqUrl, Parse(dns.txt[i])).nil

\* C12: getRedirect returns either a redirect with no error or no redirect with
\* "No paths matched"; the error exactly when no record parses into a rule that
\* translates the path; the records that do not parse change nothing, and with
\* none that parses the result is the error.
C12_NoMatch ==
    Resolved =>
        /\ resolved.err \in {OK, NoPathsMatched}
        /\ resolved.err = OK <=> ~resolved.redirect.nil
        /\ resolved.err = NoPathsMatched <=> ~\E i \in 1..Len(dns.txt) : RuleMatch(i)
        /\ getRedirect(Parseable(dns.txt), reqUrl).redirect = resolved.redirect
        /\ getRedirect(Parseable(dns.txt), reqUrl).err = resolved.err
        /\ Parseable(dns.txt) = << >> => resolved.err = NoPathsMatched

\* no path matched on an answer that starts with a record that does not parse
\* and holds a scoped rule for another path; without the first record a rule
\* remains
C12_Witness ==
    /\ Resolved
    /\ resolved.err = NoPathsMatched
    /\ Len(dns.txt) >= 2
    /\ Parse(dns.txt[1]).nil
    /\ Parseable(dns.txt) # << >>

\* the quota left to apex a for a Put whose clock reads t, the cache holding
\* counters cnts for the bucket wk
Remaining(cnts, wk, a, t) ==
    IF Truncate(t, WeekLen) = wk THEN Limit - cnts[a] ELSE Limit
\* the step is worker w's store operation ending cancelled
Cancelled(w) == Leaves(w, "store") /\ storeRet'[w] = "context canceled"

\* C19 as stated: a domain Put whose store operation is cancelled leaves the
\* counters, the quota remaining and the stored data as the call found them.
C19_CancelledPutLeavesCounters ==
    [][\A w \in Workers :
        Cancelled(w) =>
            /\ counts' = entered[w].counts
            /\ files' = files
            /\ \A a \in Apexes, t \in now..(MaxNow + WeekLen) :
                  Remaining(counts', weekOf', a, t)
                      = Remaining(entered[w].counts, entered[w].weekOf, a, t)]_vars

\* C19, amended: a domain Put whose store operation is cancelled returns the
\* store's error, releases the lock and increments no counter; the quota left
\* to every apex, now and later, is what it was when the call took the lock.
\* The one change the wrapper can leave is the change of bucket: when its
\* clock read a new week, the counters are cleared and the new bucket
\* adopted.  The stored data is no part of the statement: it is what the
\* underlying store left when it reported the error.
C19_CancelledPutKeepsQuota ==
    [][\A w \in Workers :
        Cancelled(w) =>
            /\ result'[w] = "context canceled"
            /\ mu' = Free
            /\ counts' = counts
            /\ weekOf' = weekOf
            /\ issued' = issued
            /\ \A a \in Apexes : counts'[a] <= entered[w].counts[a]
            /\ \A a \in Apexes, t \in now..(MaxNow + WeekLen) :
                  Remaining(counts', weekOf', a, t)
                      = Remaining(entered[w].counts, entered[w].weekOf, a, t)
            /\ (counts' # entered[w].counts \/ weekOf' # entered[w].weekOf) =>
                  /\ weekOf' # entered[w].weekOf
                  /\ counts' = EmptyCounts]_vars

\* a Put was cancelled in the store after its clock read a new week, its apex
\* exhausted in the old one
C19_Witness ==
    /\ ReturnedDomainPut(Client)
    /\ result[Client] = "context canceled"
    /\ storeRet[Client] = "context canceled"
    /\ entered[Client].weekOf # weekOf
    /\ entered[Client].counts[apex[Client]] = 2
    /\ counts = EmptyCounts

\* the calls the store has accepted for apex a that have not counted yet
Uncounted(a) == Cardinality({w \in Workers : pc[w] = "incr" /\ apex[w] = a})

\* C20: every apex counter is between 0 and 2 and is the number of domain
\* Puts of that apex the store accepted since the counters were last cleared,
\* less the call that holds the lock between the store's acceptance and its
\* own increment; the count is per apex, whatever the keys.
C20_CounterInvariant ==
    \A a \in Apexes :
        /\ counts[a] \in 0..2
        /\ issued[a] \in 0..2
        /\ Uncounted(a) \in 0..1
        /\ counts[a] + Uncounted(a) = issued[a]

\* a third Put of one identical key is refused after the store accepted two:
\* the only file the store holds is that key's
C20_Witness ==
    /\ ReturnedDomainPut(Client)
    /\ result[Client] = RateLimitExceeded
    /\ rollovers = 0
    /\ counts[apex[Client]] = 2
    /\ issued[apex[Client]] = 2
    /\ files[key[Client]] # NoData
    /\ \A k \in DOMAIN files : k # key[Client] => files[k] = NoData

\* the step is worker w's call being refused at the quota check
Rejected(w) == Leaves(w, "check") /\ result'[w] = RateLimitExceeded

\* C21: a Put that returns RateLimitExceeded leaves every counter and the
\* stored bucket as the call found them under the lock; a call whose clock
\* read a new week, and so changed the bucket, is not refused.
C21_RejectedPutChangesNothing ==
    [][\A w \in Workers :
        /\ Rejected(w) =>
              /\ counts' = entered[w].counts
              /\ weekOf' = entered[w].weekOf
              /\ pc'[w] = "done"
              /\ mu' = Free
        /\ (Leaves(w, "check") /\ weekOf # entered[w].weekOf) =>
              /\ counts = EmptyCounts
              /\ result'[w] # RateLimitExceeded
              /\ pc'[w] = "store"]_vars

\* a Put of an exhausted apex was refused while the other apex holds a count
\* too, in a bucket adopted by an earlier call
C21_Witness ==
    /\ ReturnedDomainPut(Client)
    /\ result[Client] = RateLimitExceeded
    /\ rollovers = 1
    /\ entered[Client] = [counts |-> counts, weekOf |-> weekOf]
    /\ counts[apex[Client]] = 2
    /\ \E a \in Apexes : a # apex[Client] /\ counts[a] >= 1

\* worker w is between c.mu.Lock() and its return
InCriticalSection(w) == pc[w] \in {"week", "check", "store", "incr"}
\* the lock is held by a call inside its critical section, or by none
LockReleased ==
    /\ \A w \in Workers : ~InCriticalSection(w) => mu # w
    /\ mu # Free => InCriticalSection(mu)
\* a call is never left with no step to take: a waiting call finds the lock
\* free or held by a call that runs
NoDeadlock ==
    \A w \in Workers : pc[w] = "lock" => (mu = Free \/ InCriticalSection(mu))

\* C22: Put holds the lock on none of its return paths (rate limited, store
\* failure, success); with fair scheduling and store calls that return,
\* every call of Put returns, and no call waits on a lock nobody will free.
C22_LockReleaseAndProgress ==
    /\ [](LockReleased /\ NoDeadlock)
    /\ \A w \in Workers : (pc[w] # "idle") ~> (pc[w] = "done")

\* a call has returned the store's error and another call holds the lock
C22_Witness ==
    \E w1 \in Workers, w2 \in Workers :
        /\ w1 # w2
        /\ pc[w1] = "done"
        /\ result[w1] = "EIO"
        /\ mu = w2
        /\ pc[w2] = "store"

\* the step is a Get or a Delete on the cache
NonPut == got' # got

\* C24: a Get, and a Delete, is answered by the underlying store: Get returns
\* the stored data or the cache miss and Delete removes the file; neither is
\* refused by the quota, takes the lock, or changes a counter or the bucket,
\* whatever the counters hold.
C24_GetPassesThrough ==
    [][NonPut =>
        /\ got'.ret # RateLimitExceeded
        /\ got'.op = "Get" =>
              /\ got'.ret = IF files[got'.key] = NoData
                            THEN "acme/autocert: certificate cache miss"
                            ELSE files[got'.key]
              /\ files' = files
        /\ got'.op = "Delete" =>
              /\ got'.ret = OK
              /\ \A k \in Keys : files'[k] = IF k = got'.key THEN NoData ELSE files[k]
        /\ counts' = counts
        /\ weekOf' = weekOf
        /\ mu' = mu
        /\ pc' = pc
        /\ issued' = issued]_vars

\* a Get returned the certificate while its apex was exhausted and a Put
\* held the lock
C24_Witness ==
    /\ got.op = "Get"
    /\ got.ret = "certA"
    /\ got.counts[EffectiveTLDPlusOne(got.key).apex] = 2
    /\ got.mu = Client

(***************************************************************************)
(* Properties of the HTTP handler.                                         *)
(***************************************************************************)
\* redirectHandler has written a response
Responded == resp.status # 0
\* getRedirect returned a redirect to the handler or to a direct caller
Found == resolved.err = OK

\* C13: a response whose resolved status is 301 carries
\* Cache-Control: max-age=86400; a response with any other resolved status,
\* and the fallback response, carry no Cache-Control header.
C13_CacheControl301 ==
    Responded =>
        IF Found /\ resolved.redirect.Status = 301
        THEN resp.status = 301 /\ resp.cacheControl = "max-age=86400"
        ELSE resp.status # 301 /\ resp.cacheControl = ""

\* a permanent redirect was served with the header
C13_Witness ==
    /\ Responded
    /\ Found
    /\ resolved.redirect.Status = 301
    /\ resp.cacheControl = "max-age=86400"

\* C14: when the records resolve to status 308 the response has status 308
\* and carries a non-empty Cache-Control header.
C14_CacheControl308 ==
    (Responded /\ Found /\ resolved.redirect.Status = 308) =>
        resp.status = 308 /\ resp.cacheControl # ""

\* the fallback location configured: FALLBACK_URL, or the default when unset
Configured == IF fallbackUrl = "" THEN "http://redirect.name/" ELSE fallbackUrl
\* the escaped reason fragments the responses are expected to carry
EscapedNoMatch == <<"No", "+", "paths", "+", "matched">>
EscapedDnsError ==
    IF dns.err = "no such host" THEN <<"no", "+", "such", "+", "host">>
    ELSE <<"i", "%2F", "o", "+", "timeout">>
EscapedDnsFailure ==
    <<"Could", "+", "not", "+", "resolve", "+", "hostname", "+", "%28">>
        \o EscapedDnsError \o <<"%29">>

\* C15: when the TXT lookup fails or getRedirect returns "No paths matched",
\* the response is a 302 to the configured fallback location followed by
\* #reason= and the escaped reason; the reason of a lookup failure differs
\* from the reason of no match; no rule's target or status is in the response.
C15_Fallback ==
    (Responded /\ ~Found) =>
        /\ resp.status = 302
        /\ dns.err # OK =>
              resp.location = <<Configured, "#reason=">> \o EscapedDnsFailure
        /\ dns.err = OK =>
              /\ resolved.err = NoPathsMatched
              /\ resp.location = <<Configured, "#reason=">> \o EscapedNoMatch
        /\ \A err \in DnsErrors : CouldNotResolve(err) # ErrorText(NoPathsMatched)
        /\ EscapedDnsFailure # EscapedNoMatch
        /\ \A i \in 1..Len(dns.txt) :
              ~Parse(dns.txt[i]).nil => resp.location # Parse(dns.txt[i]).To

\* no path matched while a permanent rule for another path is published and
\* FALLBACK_URL is set
C15_Witness ==
    /\ Responded
    /\ resolved.err = NoPathsMatched
    /\ fallbackUrl # ""
    /\ resp.location[1] = fallbackUrl
    /\ \E i \in 1..Len(dns.txt) :
          ~Parse(dns.txt[i]).nil /\ Parse(dns.txt[i]).Status = 301

\* the part of url after its first n characters, when url starts with prefix
StartsWith(url, prefix) ==
    \E n \in 0..Len(url) : [i \in 1..n |-> url[i]] = prefix
\* record i of the answer parses into a scoped rule whose source ends in "*"
PrefixRuleAt(i) ==
    /\ i \in 1..Len(dns.txt)
    /\ ~Parse(dns.txt[i]).nil
    /\ Parse(dns.txt[i]).From # << >>
    /\ Parse(dns.txt[i]).From[Len(Parse(dns.txt[i]).From)] = "*"

Unclosed(prefix) ==
    IF Len(prefix) > 1 /\ prefix[Len(prefix)] = "/"
    THEN [k \in 1..(Len(prefix) - 1) |-> prefix[k]]
    ELSE prefix
\* the part of url after prefix
After(url, prefix) == [k \in 1..(Len(url) - Len(prefix)) |-> url[Len(prefix) + k]]

SaysPermanently(record) == Len(record) >= 2 /\ record[2] = <<"permanently">>
HasWithClause(record) == Len(record) >= 3 /\ record[Len(record) - 1] = <<"with">>
CodeAsked(record) ==
    CASE record[Len(record)] = <<"3", "0", "7">> -> 307
      [] record[Len(record)] = <<"3", "0", "8">> -> 308
      [] OTHER -> 0

\* C17: the resolved status is the code of a trailing "with <code>" clause
\* when there is one, else 301 when the record says "permanently", else 302;
\* the response carries exactly the resolved status and location.
C17_StatusSelection ==
    (Resolved /\ Found) =>
        LET record == dns.txt[resolved.rule]
        IN  /\ resolved.redirect.Status =
                  IF HasWithClause(record) THEN CodeAsked(record)
                  ELSE IF SaysPermanently(record) THEN 301 ELSE 302
            /\ Responded =>
                  /\ resp.status = resolved.redirect.Status
                  /\ resp.location = resolved.redirect.Location

\* a record saying both "permanently" and "with 307" was served as 307
C17_Witness ==
    /\ Responded
    /\ Found
    /\ SaysPermanently(dns.txt[resolved.rule])
    /\ HasWithClause(dns.txt[resolved.rule])
    /\ resp.status = 307

\* C23: on one TXT answer, when getRedirect returns a redirect for a path,
\* hostPolicy allows the host; when hostPolicy denies the host, no request
\* path is given a redirect.  The converse fails: see the witness.
C23_GateAtLeastAsPermissive ==
    /\ Found => hostPolicy(lookupTXT, Host) = OK
    /\ (admitted # NoResult /\ admitted # OK) =>
          \A url \in Paths :
              redirectHandler(lookupTXT, "", Host, url).out.err # OK

\* a request was given a redirect by a scoped rule on an answer with no
\* catch-all; hostPolicy allows the host on that answer, on which another
\* request path matches nothing
C23_Witness ==
    /\ Responded
    /\ Found
    /\ hostPolicy(lookupTXT, Host) = OK
    /\ \A i \in 1..Len(dns.txt) : ~CatchAllAt(i)
    /\ \E url \in Paths : getRedirect(dns.txt, url).err = NoPathsMatched

TypeOK ==
    /\ counts \in [Apexes -> Nat]
    /\ mu \in {Free} \cup Workers
    /\ now \in 0..MaxNow
====
